---- MODULE Spec2Model ----
(***************************************************************************)
(* A model of the LoRa gateway forwarder (dinocore1/gateway-rs):           *)
(*   - the gateway event handler and its signed-beacon queue               *)
(*     (src/src/gateway.rs),                                               *)
(*   - the regulatory throttle (src/src/lora_throttle.rs).                 *)
(* Specifications:                                                         *)
(*   Spec          the gateway handling every kind of udp event            *)
(*   FeedSpec      the gateway fed only V3 beacons (the eviction scenario) *)
(*   ThrottleSpec  a throttle under track_sent / can_send calls            *)
(*   DutySpec      the Duty throttle under bursts of equal sends           *)
(*   DownlinkSpec  downlink requests and their detached tasks              *)
(*                 (Gateway::handle_downlink, src/src/gateway.rs, with     *)
(*                 Downlink::dispatch, src/src/dbusruntime.rs);            *)
(*                 DownlinkFairSpec adds the scheduling of the tasks,      *)
(*                 SchedulerSpec a dispatch returning any value of its type*)
(*   RunSpec       the select loop of Gateway::run, fairly scheduled       *)
(*   EventSpec     that loop on udp events of every kind                   *)
(*   CardSpec      that loop on the card's messages (DBusRuntime::recv)    *)
(*   TxPktSpec     the TxPkt built by Downlink::dispatch                   *)
(***************************************************************************)
EXTENDS Integers, Sequences, FiniteSets, Bags, TLC

VARIABLES
    signed_pkt_queue,   \* Gateway.signed_pkt_queue: Vec<RxPkV3>
    downlink_mac,       \* Gateway.downlink_mac
    last_event,         \* the event the last handle_udp_event call was given
    poc_sent,           \* what that call handed to uplinks.poc_packet (None/Some)
    uplink_sent,        \* what that call handed to uplinks.uplink (None/Some)
    sig_idx,            \* idx found by handle_pkt_sig in that call (0: no match)
    fed,                \* FeedSpec: keys of the beacons fed so far
    model,              \* LoraThrottle.model: Option<LoraRegulatoryModel>
    sent_packets,       \* LoraThrottle.sent_packets: Vec<SentPacket>
    t0,                 \* the time origin the calls are placed around
    last_call,          \* the last throttle call, its arguments and result
    tracked,            \* HistorySpec, GatedSpec: every track_sent call so far
    run_pc,             \* Gateway::run: "select" in the loop, "returned" after Ok(())
    shutdown,           \* the shutdown trigger has fired
    messages,           \* the inbound downlink channel: the Messages not yet received
    messages_closed,    \* every MessageSender of that channel is dropped
    closed_warnings,    \* "ignoring closed downlinks channel" warnings logged
    udp_ready,          \* the event udp_runtime.recv() has ready (None/Some)
    tasks,              \* the tasks spawned by handle_downlink, in spawn order
    udp_result,         \* what the last handle_udp_event call of run returned
    rx_stream,          \* DBusRuntime.rx_stream: the card's messages not yet received
    card_tmst,          \* the number of messages the card has put into rx_stream
    forwarded,          \* CardSpec: the tmst of the receptions handed to uplinks.uplink
    txpkt               \* TxPktSpec: the TxPk a dispatch was given and the TxPkt it built

gateway_vars == <<signed_pkt_queue, downlink_mac, last_event, poc_sent,
                  uplink_sent, sig_idx, fed>>
throttle_vars == <<model, sent_packets, t0, last_call, tracked>>
run_vars == <<run_pc, shutdown, messages, messages_closed, closed_warnings,
              udp_ready, tasks>>
io_vars == <<udp_result, rx_stream, card_tmst, forwarded, txpkt>>
vars == <<gateway_vars, throttle_vars, run_vars, io_vars>>

\* Option<T>: None is the empty sequence, Some(x) the one-element sequence.
None == <<>>
Some(x) == <<x>>

----------------------------------------------------------------------------
(* Bounds of the gateway model *)

\* Packet-id keys of the receptions and signatures of Spec are 1..MaxKey.
MaxKey == 2
Keys == 1..MaxKey
\* Keys of the beacons of FeedSpec (six distinct beacons must be feedable).
FeedKeys == 1..6
\* FeedSpec feeds at most this many beacons.
MaxFeed == 6
Macs == {"mac_a", "mac_b"}
NilMac == "nil"
SigBytes == {"sig_x", "sig_y"}
CrcStates == {"OK", "Fail", "Disabled"}
MTypes == {"Proprietary", "UnconfirmedUp"}

\* A push_data reception record.  Only the V3 variant carries a key.
RxPks ==
    [version : {"V1", "V2"}, crc : CrcStates, mtype : MTypes, key : {None}]
    \cup [version : {"V3"}, crc : CrcStates, mtype : MTypes,
          key : {Some(k) : k \in Keys}]

----------------------------------------------------------------------------
(* Packet model *)

\* PacketUp::from_rxpk: a CRC status other than OK is rejected; the key is
\* the record's id (V3 only) and the concentrator signature starts as None.
from_rxpk_any_crc(rxpk) ==
    [ok |-> TRUE,
     packet |-> [mtype |-> rxpk.mtype, key |-> rxpk.key,
                 concentrator_sig |-> None]]

from_rxpk(rxpk) ==
    IF rxpk.crc # "OK"
    THEN [ok |-> FALSE, err |-> "invalid_crc"]
    ELSE [ok |-> TRUE,
          packet |-> [mtype |-> rxpk.mtype, key |-> rxpk.key,
                      concentrator_sig |-> None]]

\* PacketUp::is_potential_beacon: the MAC header type is Proprietary.
is_potential_beacon_always(packet) == TRUE

is_potential_beacon(packet) == packet.mtype = "Proprietary"

----------------------------------------------------------------------------
(* Signed-beacon queue *)

\* Vec::remove(idx), idx counted from 1.
VecRemove(q, idx) == SubSeq(q, 1, idx - 1) \o SubSeq(q, idx + 1, Len(q))

\* The length above which queue_signed_poc_packet evicts.
QUEUE_THRESHOLD == 5

\* Gateway::queue_signed_poc_packet
queue_signed_poc_packet(q, packet) ==
    LET q1 == IF Len(q) > QUEUE_THRESHOLD THEN VecRemove(q, 1) ELSE q
    IN  Append(q1, packet)

\* Iterator::position: the index of the first entry whose key is key, scanning
\* from index i; 0 when there is none.
RECURSIVE position(_, _, _)
position(q, key, i) ==
    IF i > Len(q) THEN 0
    ELSE IF q[i].key = key THEN i
    ELSE position(q, key, i + 1)

\* The index of the last entry whose key is key; 0 when there is none.
sig_position_last(q, key) ==
    LET matches == {i \in 1..Len(q) : q[i].key = key}
    IN  IF matches = {} THEN 0
        ELSE CHOOSE i \in matches : \A j \in matches : j <= i

\* The index handle_pkt_sig removes for a signature with this key.
sig_position(q, key) == position(q, key, 1)

\* Gateway::handle_pkt_sig: the first match is removed and dropped.
handle_pkt_sig(q, key) ==
    LET idx == sig_position(q, key)
    IN  IF idx # 0 THEN VecRemove(q, idx) ELSE q

----------------------------------------------------------------------------
(* Gateway::handle_udp_event, one action per event variant *)

GatewayInit ==
    /\ signed_pkt_queue = <<>>
    /\ downlink_mac = NilMac
    /\ last_event = [type |-> "none"]
    /\ poc_sent = None
    /\ uplink_sent = None
    /\ sig_idx = 0
    /\ fed = <<>>

\* Event::PacketReceived(rxpk, _): the body of the match arm.
handle_packet_received(rxpk) ==
    LET v3pkt == IF rxpk.version = "V3" THEN Some([key |-> rxpk.key[1]])
                 ELSE None
        r == from_rxpk(rxpk)
    IN  /\ last_event' = [type |-> "PacketReceived", rxpk |-> rxpk]
        /\ sig_idx' = 0
        /\ UNCHANGED downlink_mac
        /\ IF r.ok
           THEN IF is_potential_beacon(r.packet)
                THEN /\ poc_sent' = Some(r.packet)
                     /\ uplink_sent' = None
                     /\ signed_pkt_queue' =
                          IF v3pkt # None
                          THEN queue_signed_poc_packet(signed_pkt_queue, v3pkt[1])
                          ELSE signed_pkt_queue
                ELSE /\ uplink_sent' = Some(r.packet)
                     /\ poc_sent' = None
                     /\ UNCHANGED signed_pkt_queue
           ELSE /\ poc_sent' = None
                /\ uplink_sent' = None
                /\ UNCHANGED signed_pkt_queue

PacketReceived(rxpk) ==
    /\ handle_packet_received(rxpk)
    /\ UNCHANGED <<fed, throttle_vars, run_vars, io_vars>>

\* Event::PacketSigReceived(sigpkt, _): the body of the match arm.
handle_packet_sig_received(key, sig) ==
    /\ last_event' = [type |-> "PacketSigReceived", key |-> key, sig |-> sig]
    /\ sig_idx' = sig_position(signed_pkt_queue, key)
    /\ signed_pkt_queue' = handle_pkt_sig(signed_pkt_queue, key)
    /\ poc_sent' = None
    /\ uplink_sent' = None
    /\ UNCHANGED downlink_mac

PacketSigReceived(key, sig) ==
    /\ handle_packet_sig_received(key, sig)
    /\ UNCHANGED <<fed, throttle_vars, run_vars, io_vars>>

\* Event::NewClient((mac, addr)): the body of the match arm.
handle_new_client(mac) ==
    /\ last_event' = [type |-> "NewClient", mac |-> mac]
    /\ downlink_mac' = mac
    /\ poc_sent' = None
    /\ uplink_sent' = None
    /\ sig_idx' = 0
    /\ UNCHANGED signed_pkt_queue

NewClient(mac) ==
    /\ handle_new_client(mac)
    /\ UNCHANGED <<fed, throttle_vars, run_vars, io_vars>>

\* The events that are only logged.
InfoEvents == {"UnableToParseUdpFrame", "UpdateClient", "ClientDisconnected",
               "NoClientWithMac", "StatReceived"}

\* The match arms that only log.
handle_info_event(type) ==
    /\ last_event' = [type |-> type]
    /\ poc_sent' = None
    /\ uplink_sent' = None
    /\ sig_idx' = 0
    /\ UNCHANGED <<signed_pkt_queue, downlink_mac>>

InfoEvent(type) ==
    /\ handle_info_event(type)
    /\ UNCHANGED <<fed, throttle_vars, run_vars, io_vars>>

\* Gateway::handle_udp_event on an event given as a record.
handle_udp_event(event) ==
    CASE event.type = "PacketReceived" -> handle_packet_received(event.rxpk)
      [] event.type = "PacketSigReceived" ->
           handle_packet_sig_received(event.key, event.sig)
      [] event.type = "NewClient" -> handle_new_client(event.mac)
      [] OTHER -> handle_info_event(event.type)

Next ==
    \/ \E rxpk \in RxPks : PacketReceived(rxpk)
    \/ \E key \in Keys, sig \in SigBytes : PacketSigReceived(key, sig)
    \/ \E mac \in Macs : NewClient(mac)
    \/ \E type \in InfoEvents : InfoEvent(type)

----------------------------------------------------------------------------
(* f32 arithmetic on integer values *)

\* The integers of magnitude below 2^24 are exactly the ones every f32 holds.
F32_EXACT == 2^24

Abs(x) == IF x < 0 THEN -x ELSE x

\* The spacing of the f32 values around magnitude a.
RECURSIVE Ulp(_)
Ulp(a) == IF a < F32_EXACT THEN 1 ELSE 2 * Ulp(a \div 2)

\* x rounded to a multiple of the spacing u: to the nearest, ties to the even
\* significand.
RoundTo(a, u) ==
    LET q == a \div u
        r == a % u
    IN  IF (2 * r > u) \/ (2 * r = u /\ q % 2 = 1) THEN (q + 1) * u ELSE q * u

\* `x as f32`, and the rounding of an f32 operation whose exact result is the
\* integer x.
F32(x) ==
    IF x < F32_EXACT /\ -x < F32_EXACT THEN x
    ELSE IF x < 0 THEN -RoundTo(-x, Ulp(-x))
    ELSE RoundTo(x, Ulp(x))

----------------------------------------------------------------------------
(* Regulatory throttle *)

MAX_TIME_ON_AIR == 400

\* LoraRegulatoryModel::us_dwell_time
us_dwell_time == [kind |-> "Dwell", limit |-> 400, period |-> 20000]

\* LoraRegulatoryModel::common_duty: limit 0.01 is limit_num / limit_den.
common_duty == [kind |-> "Duty", limit_num |-> 1, limit_den |-> 100,
                period |-> 3600000]

\* At most this many tracked packets are kept in the model.
MaxLen == 2

ch0 == 0
ch1 == 1
Channels == {ch0, ch1}

\* dwell_time: one round of the loop, on the entry sent_packet with the running
\* sum dt.value.  The assert of the straddle branch panics, which ends the loop.
dwell_time_step(sent_packet, cutoff_time, frequency, dt) ==
    LET sent_at == F32(sent_packet.sent_at)
    IN  IF dt.panic THEN dt
        ELSE IF F32(sent_at + sent_packet.time_on_air) < cutoff_time THEN dt
        ELSE IF frequency # None /\ sent_packet.frequency # frequency[1] THEN dt
        ELSE IF sent_at <= cutoff_time
        THEN LET relevant_time_on_air ==
                   F32(sent_packet.time_on_air - F32(cutoff_time - sent_at))
             IN  IF relevant_time_on_air >= 0
                 THEN [panic |-> FALSE,
                       value |-> F32(dt.value + relevant_time_on_air)]
                 ELSE [panic |-> TRUE, value |-> dt.value]
        ELSE [panic |-> FALSE, value |-> F32(dt.value + sent_packet.time_on_air)]

\* dwell_time: the rounds of the loop on the entries i..j, in order, from the
\* running sum dt: the rounds on the first half of the range, then the ones
\* on the second half.
RECURSIVE dwell_time_from(_, _, _, _, _, _)
dwell_time_from(packets, cutoff_time, frequency, i, j, dt) ==
    IF i > j THEN dt
    ELSE IF i = j THEN dwell_time_step(packets[i], cutoff_time, frequency, dt)
    ELSE LET mid == (i + j) \div 2
             first == dwell_time_from(packets, cutoff_time, frequency, i, mid, dt)
         IN  IF first.panic THEN first
             ELSE dwell_time_from(packets, cutoff_time, frequency, mid + 1, j,
                                  first)

\* What the loop adds for one entry when its assert holds: 0 for a skipped
\* entry, the part after cutoff_time of a straddling one, else all of it.  A
\* negative value is a failing assert.
dwell_time_added(sent_packet, cutoff_time, frequency) ==
    LET sent_at == F32(sent_packet.sent_at)
    IN  IF F32(sent_at + sent_packet.time_on_air) < cutoff_time THEN 0
        ELSE IF frequency # None /\ sent_packet.frequency # frequency[1] THEN 0
        ELSE IF sent_at <= cutoff_time
        THEN F32(sent_packet.time_on_air - F32(cutoff_time - sent_at))
        ELSE sent_packet.time_on_air

\* dwell_time.  While the sum of what the entries add stays below 2^24 no
\* addition of the loop rounds, and the loop returns that sum; the sum is then
\* taken as the size of the bag holding entry i added[i] times.  Otherwise the
\* loop is followed round by round.
dwell_time(packets, cutoff_time, frequency) ==
    LET added == <<>> \o [i \in 1..Len(packets) |->
                            dwell_time_added(packets[i], cutoff_time, frequency)]
        counted == {i \in 1..Len(packets) : added[i] > 0}
        total == BagCardinality([i \in counted |-> added[i]])
    IN  IF \E i \in 1..Len(packets) : added[i] < 0
        THEN [panic |-> TRUE, value |-> 0]
        ELSE IF total < F32_EXACT
        THEN [panic |-> FALSE, value |-> total]
        ELSE dwell_time_from(packets, cutoff_time, frequency, 1, Len(packets),
                             [panic |-> FALSE, value |-> 0])

\* LoraRegulatoryModel::can_send.  Duty: with limit = f32(0.01) and an integer
\* dwell, (dwell + toa) / period < limit decides as dwell + toa < period / 100.
model_can_send(m, packets, at_time, frequency, time_on_air) ==
    IF m.kind = "Dwell"
    THEN LET cutoff_time == F32(F32(at_time - m.period) + time_on_air)
             dt == dwell_time(packets, cutoff_time, Some(frequency))
             projected_dwell_time == F32(dt.value + time_on_air)
         IN  [panic |-> dt.panic,
              result |-> ~dt.panic /\ projected_dwell_time <= m.limit]
    ELSE LET cutoff_time == F32(at_time - m.period)
             dt == dwell_time(packets, cutoff_time, None)
             current_dwell == dt.value
         IN  [panic |-> dt.panic,
              result |-> /\ ~dt.panic
                         /\ F32(current_dwell + time_on_air) * m.limit_den
                              < m.limit_num * F32(m.period)]

can_send_uncapped(mo, packets, at_time, frequency, time_on_air) ==
    IF mo # None
    THEN model_can_send(mo[1], packets, at_time, frequency, time_on_air)
    ELSE [panic |-> FALSE, result |-> FALSE]

can_send_permissive(mo, packets, at_time, frequency, time_on_air) ==
    IF mo # None
    THEN IF time_on_air > MAX_TIME_ON_AIR
         THEN [panic |-> FALSE, result |-> FALSE]
         ELSE model_can_send(mo[1], packets, at_time, frequency, time_on_air)
    ELSE [panic |-> FALSE, result |-> TRUE]

\* LoraThrottle::can_send
can_send(mo, packets, at_time, frequency, time_on_air) ==
    IF mo # None
    THEN IF time_on_air > MAX_TIME_ON_AIR
         THEN [panic |-> FALSE, result |-> FALSE]
         ELSE model_can_send(mo[1], packets, at_time, frequency, time_on_air)
    ELSE [panic |-> FALSE, result |-> FALSE]

IsSorted(packets) ==
    \A i \in 1..Len(packets) - 1 : packets[i].sent_at <= packets[i + 1].sent_at

\* sort_unstable: the orderings by sent_at; entries of equal sent_at may end
\* in any order.  Each ordering starts with an entry of least sent_at and goes
\* on with an ordering of the rest.
RECURSIVE sort_unstable(_)
sort_unstable(packets) ==
    IF packets = <<>> THEN {<<>>}
    ELSE
      LET least == {i \in 1..Len(packets) :
                      \A j \in 1..Len(packets) :
                         packets[i].sent_at <= packets[j].sent_at}
      IN  UNION {{<<packets[i]>> \o rest : rest \in sort_unstable(VecRemove(packets, i))} :
                 i \in least}

\* Vec::retain(|p| p.sent_at > cutoff_time)
retain(packets, cutoff_time) ==
    SelectSeq(packets, LAMBDA p : p.sent_at > cutoff_time)

track_sent_unsorted(mo, packets, sent_at, frequency, time_on_air) ==
    IF mo = None THEN {packets}
    ELSE
      LET pushed == Append(packets, [frequency |-> frequency, sent_at |-> sent_at,
                                     time_on_air |-> time_on_air])
      IN  {retain(pushed, pushed[Len(pushed)].sent_at - mo[1].period)}

\* LoraThrottle::track_sent: the lists the call can leave in sent_packets.
track_sent(mo, packets, sent_at, frequency, time_on_air) ==
    IF mo = None THEN {packets}
    ELSE
      LET sent_packet == [frequency |-> frequency, sent_at |-> sent_at,
                          time_on_air |-> time_on_air]
          sort == IF packets # <<>>
                  THEN sent_packet.sent_at < packets[Len(packets)].sent_at
                  ELSE FALSE
          pushed == Append(packets, sent_packet)
          sorted == IF sort THEN sort_unstable(pushed) ELSE {pushed}
      IN  {retain(s, s[Len(s)].sent_at - mo[1].period) : s \in sorted}

----------------------------------------------------------------------------
(* The throttle under calls *)

\* The time origins: one below 2^24 ms in magnitude, where every f32 is exact,
\* the t0 of us915_dwell_time_test, and one of the magnitude of a wall-clock
\* time in seconds.
T0s == {0, -123456789, 1000000000}

\* The throttles at start: none, the Duty model from time 0 (as in the
\* reference eu868_duty_cycle_test), the Dwell model around each origin.
ThrottleStarts ==
    {<<None, 0>>, <<Some(common_duty), 0>>}
    \cup {<<Some(us_dwell_time), t>> : t \in T0s}

Period(mo) == IF mo = None THEN us_dwell_time.period ELSE mo[1].period

TrackOffsets(mo) == {0, Period(mo) \div 4, Period(mo)}
TrackToas == {200, 400}
\* The (offset, time on air) pairs can_send is asked about: the ones of
\* us915_dwell_time_test around one period, and a time on air above the cap.
Queries(mo) ==
    {<<1, 400>>, <<Period(mo) - 1, 400>>, <<Period(mo), 400>>,
     <<1, 200>>, <<Period(mo) - 199, 200>>, <<Period(mo) - 201, 201>>,
     <<1, 401>>, <<Period(mo), 401>>}

ThrottleIdle ==
    /\ model = None
    /\ sent_packets = <<>>
    /\ tracked = <<>>
    /\ t0 = 0
    /\ last_call = [op |-> "none"]

ThrottleInit ==
    /\ \E start \in ThrottleStarts : model = start[1] /\ t0 = start[2]
    /\ sent_packets = <<>>
    /\ tracked = <<>>
    /\ last_call = [op |-> "none"]

TrackSent(d, frequency, time_on_air) ==
    /\ \E s \in track_sent(model, sent_packets, t0 + d, frequency, time_on_air) :
         /\ Len(s) <= MaxLen
         /\ sent_packets' = s
    /\ last_call' = [op |-> "track_sent", at |-> t0 + d, frequency |-> frequency,
                     time_on_air |-> time_on_air]
    /\ UNCHANGED <<model, t0, tracked, gateway_vars, run_vars, io_vars>>

CanSend(d, frequency, time_on_air) ==
    /\ LET r == can_send(model, sent_packets, t0 + d, frequency, time_on_air)
       IN  last_call' = [op |-> "can_send", at |-> t0 + d,
                         frequency |-> frequency, time_on_air |-> time_on_air,
                         result |-> r.result, panic |-> r.panic]
    /\ UNCHANGED <<model, sent_packets, t0, tracked, gateway_vars, run_vars,
                   io_vars>>

ThrottleNext ==
    \/ \E d \in TrackOffsets(model), f \in Channels, toa \in TrackToas :
         TrackSent(d, f, toa)
    \/ \E q \in Queries(model), f \in Channels : CanSend(q[1], f, q[2])

----------------------------------------------------------------------------
(* The Duty throttle under a burst of equal sends (eu868_duty_cycle_test) *)

\* The spacing of the sends of a burst, ms.
BURST_SPACING == 1000
Ten_ms == 10

\* The bursts: the one of eu868_duty_cycle_test (10 ms sends from time 0), and
\* sends of the longest permitted time on air from time 0 and from a time of
\* the magnitude of a wall-clock time in seconds.
DutyT0s == {0, 1000000000}
DutyBursts == {<<0, Ten_ms>>} \cup {<<t, MAX_TIME_ON_AIR>> : t \in DutyT0s}

\* The number of sends of toa ms that stay below the duty limit of a period:
\* 3599 sends of 10 ms, 89 sends of 400 ms.
BurstLen(toa) ==
    (common_duty.period * common_duty.limit_num)
        \div (common_duty.limit_den * toa) - 1

\* The offsets and times on air can_send is asked about once a burst is over:
\* one spacing after the last send, and around one period after the first.
DutyQueries ==
    {<<BurstLen(Ten_ms) * BURST_SPACING, Ten_ms>>,
     <<BurstLen(MAX_TIME_ON_AIR) * BURST_SPACING, MAX_TIME_ON_AIR>>,
     <<common_duty.period, MAX_TIME_ON_AIR>>,
     <<common_duty.period + 1, MAX_TIME_ON_AIR>>,
     <<common_duty.period + 1, Ten_ms>>,
     <<common_duty.period + 2, 1>>}

DutyInit ==
    /\ model = Some(common_duty)
    /\ t0 \in DutyT0s
    /\ sent_packets = <<>>
    /\ tracked = <<>>
    /\ last_call = [op |-> "none"]

\* One round of the test's fold: can_send is asked for the next send of the
\* burst on ch0, then the send is tracked.
BurstSend(toa) ==
    /\ <<t0, toa>> \in DutyBursts
    /\ Len(sent_packets) < BurstLen(toa)
    /\ sent_packets # <<>> => sent_packets[1].time_on_air = toa
    /\ LET Now == t0 + Len(sent_packets) * BURST_SPACING
           r == can_send(model, sent_packets, Now, ch0, toa)
       IN  /\ last_call' = [op |-> "send", at |-> Now, frequency |-> ch0,
                            time_on_air |-> toa, result |-> r.result,
                            panic |-> r.panic]
           /\ sent_packets' \in track_sent(model, sent_packets, Now, ch0, toa)
    /\ UNCHANGED <<model, t0, tracked, gateway_vars, run_vars, io_vars>>

\* can_send asked after the burst.
DutyAsk(d, frequency, time_on_air) ==
    /\ sent_packets # <<>>
    /\ Len(sent_packets) = BurstLen(sent_packets[1].time_on_air)
    /\ CanSend(d, frequency, time_on_air)

DutyNext ==
    \/ \E toa \in {Ten_ms, MAX_TIME_ON_AIR} : BurstSend(toa)
    \/ \E q \in DutyQueries, f \in Channels : DutyAsk(q[1], f, q[2])

----------------------------------------------------------------------------
(* Downlinks: PacketDown, the Downlink handle and its dispatch *)

\* Result<T, E>
Ok(value) == [ok |-> TRUE, value |-> value]
Err(err) == [ok |-> FALSE, err |-> err]

\* At most this many downlink requests are made.
MaxTasks == 2

\* A receive window of a PacketDown: absent, or present with a data rate that
\* datarate::from_proto accepts ("ok") or rejects ("unsupported").
Windows == {"absent", "ok", "unsupported"}
PacketDowns == [rx1 : Windows, rx2 : Windows]

\* What the card answers to a send call; "Never" is a call that gets no answer.
SendErrors == {"ErrTooEarly", "ErrTooLate", "ErrPacketCollision",
               "ErrQueueFull", "ErrIO", "TransportFailure"}
SendReplies == {"Ok"} \cup SendErrors \cup {"Never"}

DOWNLINK_TIMEOUT_SECS == 5

\* PacketDown::to_rx1_pull_resp, which downlink.to_pull_resp(false) stands for.
to_rx1_pull_resp(downlink) ==
    IF downlink.rx1 = "absent" THEN Err("no_rx1_window")
    ELSE IF downlink.rx1 = "unsupported" THEN Err("invalid_data_rate")
    ELSE Ok([window |-> "rx1"])

\* PacketDown::to_rx2_pull_resp, which downlink.to_pull_resp(true) stands for.
to_rx2_pull_resp(downlink) ==
    IF downlink.rx2 = "absent" THEN Ok(None)
    ELSE IF downlink.rx2 = "unsupported" THEN Err("invalid_data_rate")
    ELSE Ok(Some([window |-> "rx2"]))

\* DBusRuntime::prepare_empty_downlink: a handle without a packet; the MAC it
\* is given is not kept.
prepare_empty_downlink(mac) == [packet |-> None]

\* Downlink::set_packet
set_packet_ignored(handle, txpk) == handle

set_packet(handle, txpk) == [handle EXCEPT !.packet = Some(txpk)]

\* Downlink::dispatch once proxy.send has answered with reply: Ok(()) gives
\* Ok(None) and every error SendTimeout; timeout_duration is not used.  With
\* no packet set the call panics before any send.
dispatch(handle, timeout_duration, reply) ==
    IF handle.packet = None THEN [panic |-> TRUE]
    ELSE [panic |-> FALSE,
          result |-> IF reply = "Ok" THEN Ok(None) ELSE Err("SendTimeout")]

\* The rx1 results on which handle_downlink goes on to the rx2 slot.
rx2_retry_on_any_error(result) == ~result.ok

rx2_retry(result) ==
    ~result.ok /\ result.err \in {"Ack(TooEarly)", "Ack(TooLate)"}

\* handle_downlink up to the spawn: the two handles, asked for with the MAC
\* given, and the task that owns them.  sends lists the send calls the task
\* has made, with the card's answer.
handle_downlink_default_mac(downlink, mac) ==
    [downlink |-> downlink,
     downlink_rx1 |-> prepare_empty_downlink(NilMac), rx1_mac |-> NilMac,
     downlink_rx2 |-> prepare_empty_downlink(NilMac), rx2_mac |-> NilMac,
     pc |-> "spawned", sends |-> <<>>, rx1_result |-> None, rx2_result |-> None]

handle_downlink(downlink, mac) ==
    [downlink |-> downlink,
     downlink_rx1 |-> prepare_empty_downlink(mac), rx1_mac |-> mac,
     downlink_rx2 |-> prepare_empty_downlink(mac), rx2_mac |-> mac,
     pc |-> "spawned", sends |-> <<>>, rx1_result |-> None, rx2_result |-> None]

\* The spawned task from its start to the await of the rx1 dispatch.
task_start(task, reply) ==
    LET r == to_rx1_pull_resp(task.downlink)
    IN  IF ~r.ok THEN [task EXCEPT !.pc = "panicked"]
        ELSE LET h == set_packet(task.downlink_rx1, r.value)
             IN  IF dispatch(h, DOWNLINK_TIMEOUT_SECS, reply).panic
                 THEN [task EXCEPT !.downlink_rx1 = h, !.pc = "panicked"]
                 ELSE [task EXCEPT !.downlink_rx1 = h, !.pc = "rx1_dispatch",
                                   !.sends = <<[window |-> "rx1", reply |-> reply]>>]

\* The spawned task from the return of the rx1 dispatch with res on: to the
\* await of the rx2 dispatch, whose send the card will answer with next_reply,
\* or to its end.
task_rx1_returned(task, res, next_reply) ==
    LET t1 == [task EXCEPT !.rx1_result = Some(res)]
    IN  IF rx2_retry(res)
        THEN LET r == to_rx2_pull_resp(task.downlink)
             IN  IF ~r.ok THEN [t1 EXCEPT !.pc = "panicked"]
                 ELSE IF r.value = None THEN [t1 EXCEPT !.pc = "done"]
                 ELSE LET h == set_packet(task.downlink_rx2, r.value[1])
                      IN  IF dispatch(h, DOWNLINK_TIMEOUT_SECS, next_reply).panic
                          THEN [t1 EXCEPT !.downlink_rx2 = h, !.pc = "panicked"]
                          ELSE [t1 EXCEPT
                                  !.downlink_rx2 = h, !.pc = "rx2_dispatch",
                                  !.sends = Append(task.sends,
                                                   [window |-> "rx2",
                                                    reply |-> next_reply])]
        ELSE [t1 EXCEPT !.pc = "done"]

\* The spawned task from the return of the rx2 dispatch with res to its end.
task_rx2_returned(task, res) ==
    [task EXCEPT !.rx2_result = Some(res), !.pc = "done"]

\* The values of the result type of dispatch, semtech_udp's
\* server_runtime::Result<Option<u32>>, that handle_downlink tells apart.
DispatchErrors == {"Ack(TooEarly)", "Ack(TooLate)", "Ack(SendFail)",
                   "Ack(CollisionPacket)", "SendTimeout"}
DispatchResults == {Ok(None)} \cup {Err(e) : e \in DispatchErrors}

----------------------------------------------------------------------------
(* The TxPkt that Downlink::dispatch builds from a TxPk *)

\* The fields of a Semtech TxPk that the fields below are built from: the
\* immediate mark, the concentrator timestamp, the power and the two flags.
Tmsts == {0, 1, 1000000}
TxPks ==
    [imme : BOOLEAN,
     tmst : {None} \cup {Some(t) : t \in Tmsts},
     powe : {0, 14, 27, 200},
     ipol : BOOLEAN,
     ncrc : {None, Some(FALSE), Some(TRUE)}]

\* TxPk::is_immediate and TxPk::get_tmst
is_immediate(pkt) == pkt.imme
get_tmst(pkt) == pkt.tmst

\* st_to_nl::convert_txmode
convert_txmode_tmst_first(pkt) ==
    IF get_tmst(pkt) # None THEN "Timestamped"
    ELSE IF is_immediate(pkt) THEN "Immediate"
    ELSE "OnGPS"

convert_txmode(pkt) ==
    IF is_immediate(pkt) THEN "Immediate"
    ELSE IF get_tmst(pkt) # None THEN "Timestamped"
    ELSE "OnGPS"

\* `as i8` on an unsigned value: the low 8 bits, read as two's complement.
as_i8(n) == IF (n % 256) < 128 THEN n % 256 ELSE (n % 256) - 256

\* The TxPkt of Downlink::dispatch, in the fields that come from the fields
\* of TxPks.
to_txpkt(pkt) ==
    [rf_power |-> as_i8(pkt.powe),
     invert_pol |-> pkt.ipol,
     no_crc |-> IF pkt.ncrc = None THEN FALSE ELSE pkt.ncrc[1],
     no_header |-> FALSE,
     tx_mode |-> convert_txmode(pkt),
     tx_tmst |-> IF get_tmst(pkt) = None THEN 0 ELSE get_tmst(pkt)[1]]

\* A dispatch builds the TxPkt of the packet its handle holds.
BuildTxPkt(pkt) ==
    /\ txpkt' = Some([pkt |-> pkt, sent |-> to_txpkt(pkt)])
    /\ UNCHANGED <<udp_result, rx_stream, card_tmst, forwarded, gateway_vars,
                   throttle_vars, run_vars>>

TxPktNext == \E pkt \in TxPks : BuildTxPkt(pkt)

----------------------------------------------------------------------------
(* Gateway::run and the tasks it spawns *)

\* The warnings counted, at most.
MaxWarnings == 2

\* What the shutdown branch of the select waits for.
shutdown_ready_when_idle(triggered, spawned) ==
    triggered /\ \A i \in 1..Len(spawned) : spawned[i].pc \in {"done", "panicked"}

shutdown_ready(triggered, spawned) == triggered

\* Where run is after messages.recv() gave None: `continue`.
closed_channel_returns == "returned"

closed_channel_continue == "select"

RunInit ==
    /\ run_pc = "select"
    /\ shutdown = FALSE
    /\ messages = <<>>
    /\ messages_closed = FALSE
    /\ closed_warnings = 0
    /\ udp_ready = None
    /\ tasks = <<>>
    /\ udp_result = None
    /\ rx_stream = <<>>
    /\ card_tmst = 0
    /\ forwarded = <<>>
    /\ txpkt = None

\* MessageSender::downlink: a request is put into the channel.
SendDownlink(downlink) ==
    /\ ~messages_closed
    /\ Len(messages) + Len(tasks) < MaxTasks
    /\ messages' = Append(messages, downlink)
    /\ UNCHANGED <<run_pc, shutdown, messages_closed, closed_warnings,
                   udp_ready, tasks, gateway_vars, throttle_vars,
                   io_vars>>

\* The last MessageSender is dropped.
CloseChannel ==
    /\ ~messages_closed
    /\ messages_closed' = TRUE
    /\ UNCHANGED <<run_pc, shutdown, messages, closed_warnings, udp_ready,
                   tasks, gateway_vars, throttle_vars,
                   io_vars>>

\* The shutdown trigger fires.
TriggerShutdown ==
    /\ ~shutdown
    /\ shutdown' = TRUE
    /\ UNCHANGED <<run_pc, messages, messages_closed, closed_warnings,
                   udp_ready, tasks, gateway_vars, throttle_vars,
                   io_vars>>

\* The runtime has the next event ready for recv().
UdpArrives(event) ==
    /\ udp_ready = None
    /\ udp_ready' = Some(event)
    /\ UNCHANGED <<run_pc, shutdown, messages, messages_closed,
                   closed_warnings, tasks, gateway_vars, throttle_vars,
                   io_vars>>

\* select!: the shutdown branch.
ShutdownBranch ==
    /\ run_pc = "select"
    /\ shutdown_ready(shutdown, tasks)
    /\ run_pc' = "returned"
    /\ UNCHANGED <<shutdown, messages, messages_closed, closed_warnings,
                   udp_ready, tasks, gateway_vars, throttle_vars,
                   io_vars>>

\* What uplinks.uplink(packet).await and uplinks.poc_packet(packet).await
\* may return.
ForwardResults == {"Ok", "Err"}

\* The value handle_udp_event returns for an event whose forwarding, if any,
\* returned forward_result.
handle_udp_event_result_propagating(event, forward_result) ==
    IF forward_result = "Err" THEN Err("channel") ELSE Ok(None)

handle_udp_event_result(event, forward_result) == Ok(None)

\* select!: the udp_runtime.recv() branch, handle_udp_event(event).await? on
\* the event.
RecvBranch ==
    \E forward_result \in ForwardResults :
        /\ run_pc = "select"
        /\ udp_ready # None
        /\ handle_udp_event(udp_ready[1])
        /\ udp_ready' = None
        /\ LET forward == IF uplink_sent' # None \/ poc_sent' # None
                          THEN forward_result ELSE "none"
               result == handle_udp_event_result(udp_ready[1], forward)
           IN  /\ udp_result' = Some([result |-> result, forward |-> forward])
               /\ run_pc' = IF result.ok THEN "select" ELSE "failed"
        /\ UNCHANGED <<shutdown, messages, messages_closed, closed_warnings,
                       tasks, fed, throttle_vars, rx_stream, card_tmst,
                       forwarded, txpkt>>

\* When the messages.recv() branch has a message to handle: the spawned
\* tasks are detached and not waited for.
message_ready_when_idle(channel, spawned) ==
    /\ channel # <<>>
    /\ \A i \in 1..Len(spawned) : spawned[i].pc \in {"done", "panicked"}

message_ready(channel, spawned) == channel # <<>>

\* select!: the messages.recv() branch on Some(Message::Downlink(packet)):
\* handle_message, handle_downlink, and the loop goes on.
MessageBranch ==
    /\ run_pc = "select"
    /\ message_ready(messages, tasks)
    /\ tasks' = Append(tasks, handle_downlink(Head(messages), downlink_mac))
    /\ messages' = Tail(messages)
    /\ UNCHANGED <<run_pc, shutdown, messages_closed, closed_warnings,
                   udp_ready, gateway_vars, throttle_vars,
                   io_vars>>

\* select!: the messages.recv() branch on None, the channel being closed and
\* empty: the warning, and `continue`.
ClosedBranch ==
    /\ run_pc = "select"
    /\ messages = <<>>
    /\ messages_closed
    /\ closed_warnings' = IF closed_warnings < MaxWarnings
                          THEN closed_warnings + 1 ELSE closed_warnings
    /\ run_pc' = closed_channel_continue
    /\ UNCHANGED <<shutdown, messages, messages_closed, udp_ready, tasks,
                   gateway_vars, throttle_vars,
                   io_vars>>

\* Task i runs from its start to its first await (or its end).
TaskStart(i, reply) ==
    /\ i \in 1..Len(tasks)
    /\ tasks[i].pc = "spawned"
    /\ tasks' = [tasks EXCEPT ![i] = task_start(tasks[i], reply)]
    /\ UNCHANGED <<run_pc, shutdown, messages, messages_closed,
                   closed_warnings, udp_ready, gateway_vars, throttle_vars,
                   io_vars>>

\* The card answers the send task i awaits, and the task runs to its next
\* await or its end.  A send that is never answered never returns.
SendReturns(i, next_reply) ==
    /\ i \in 1..Len(tasks)
    /\ tasks[i].pc \in {"rx1_dispatch", "rx2_dispatch"}
    /\ tasks[i].sends[Len(tasks[i].sends)].reply # "Never"
    /\ LET task == tasks[i]
           handle == IF task.pc = "rx1_dispatch"
                     THEN task.downlink_rx1 ELSE task.downlink_rx2
           res == dispatch(handle, DOWNLINK_TIMEOUT_SECS,
                           task.sends[Len(task.sends)].reply).result
       IN  tasks' = [tasks EXCEPT ![i] =
                       IF task.pc = "rx1_dispatch"
                       THEN task_rx1_returned(task, res, next_reply)
                       ELSE task_rx2_returned(task, res)]
    /\ UNCHANGED <<run_pc, shutdown, messages, messages_closed,
                   closed_warnings, udp_ready, gateway_vars, throttle_vars,
                   io_vars>>

\* The dispatch task i awaits is the one of the runtime gateway.rs names,
\* semtech_udp's server_runtime, and returns some value of its result type.
DispatchReturns(i, res, next_reply) ==
    /\ i \in 1..Len(tasks)
    /\ tasks[i].pc \in {"rx1_dispatch", "rx2_dispatch"}
    /\ tasks' = [tasks EXCEPT ![i] =
                   IF tasks[i].pc = "rx1_dispatch"
                   THEN task_rx1_returned(tasks[i], res, next_reply)
                   ELSE task_rx2_returned(tasks[i], res)]
    /\ UNCHANGED <<run_pc, shutdown, messages, messages_closed,
                   closed_warnings, udp_ready, gateway_vars, throttle_vars,
                   io_vars>>

\* The steps of task i.
TaskStep(i) == \E reply \in SendReplies :
                   TaskStart(i, reply) \/ SendReturns(i, reply)

DownlinkNext ==
    \/ \E downlink \in PacketDowns : SendDownlink(downlink)
    \/ MessageBranch
    \/ \E i \in 1..MaxTasks, reply \in SendReplies : TaskStart(i, reply)
    \/ \E i \in 1..MaxTasks, reply \in SendReplies : SendReturns(i, reply)

\* Downlink requests and their tasks, with a dispatch that may return any
\* value of its type, whatever the card answered.
SchedulerReplies == {"Ok"}

SchedulerNext ==
    \/ \E downlink \in PacketDowns : SendDownlink(downlink)
    \/ MessageBranch
    \/ \E i \in 1..MaxTasks, reply \in SchedulerReplies : TaskStart(i, reply)
    \/ \E i \in 1..MaxTasks, res \in DispatchResults,
           reply \in SchedulerReplies : DispatchReturns(i, res, reply)

\* The loop of run with its sources and the tasks, on the receptions recv
\* delivers (V1 records, CRC passed or failed), downlinks with both windows
\* and sends that succeed or are never answered.
RunEvents ==
    {[type |-> "PacketReceived",
      rxpk |-> [version |-> "V1", crc |-> crc, mtype |-> "UnconfirmedUp",
                key |-> None]] : crc \in {"OK", "Fail"}}
RunDownlinks == {[rx1 |-> "ok", rx2 |-> "ok"]}
RunReplies == {"Ok", "Never"}

\* At most this many messages come from the card.
MaxReceptions == 3

\* A reception message of the card: whether msg.args() and args.rx.to_pkt()
\* succeed on it, and the CRC status and MAC header type of its packet.
CardMessageKinds ==
    {[decodes |-> "ok", crc |-> "OK", mtype |-> "UnconfirmedUp"],
     [decodes |-> "ok", crc |-> "OK", mtype |-> "Proprietary"],
     [decodes |-> "ok", crc |-> "Fail", mtype |-> "UnconfirmedUp"],
     [decodes |-> "args_error", crc |-> "OK", mtype |-> "UnconfirmedUp"],
     [decodes |-> "to_pkt_error", crc |-> "OK", mtype |-> "UnconfirmedUp"]}

\* DBusRuntime::recv on the message the stream yields: the unwraps panic on
\* a message that does not decode; otherwise the event is a V1 reception.
recv(message) ==
    IF message.decodes # "ok" THEN [panic |-> TRUE]
    ELSE [panic |-> FALSE,
          event |-> [type |-> "PacketReceived",
                     rxpk |-> [version |-> "V1", crc |-> message.crc,
                               mtype |-> message.mtype, key |-> None,
                               tmst |-> message.tmst]]]

\* rx_stream.next(): the message the stream yields and what it keeps.
stream_next_newest(stream) ==
    [message |-> stream[Len(stream)],
     rest |-> SubSeq(stream, 1, Len(stream) - 1)]

stream_next(stream) == [message |-> Head(stream), rest |-> Tail(stream)]

\* The card signals a reception; tmst is its counter.
CardSends(kind) ==
    /\ card_tmst < MaxReceptions
    /\ card_tmst' = card_tmst + 1
    /\ rx_stream' = Append(rx_stream,
                           [decodes |-> kind.decodes, crc |-> kind.crc,
                            mtype |-> kind.mtype, tmst |-> card_tmst + 1])
    /\ UNCHANGED <<udp_result, forwarded, txpkt, gateway_vars, throttle_vars,
                   run_vars>>

\* select!: the udp_runtime.recv() branch with recv itself: the next message
\* of the stream is decoded and its event handled; a panic of recv is a panic
\* of run.
CardRecv ==
    \E forward_result \in ForwardResults :
        /\ run_pc = "select"
        /\ rx_stream # <<>>
        /\ LET next == stream_next(rx_stream)
               r == recv(next.message)
           IN  /\ rx_stream' = next.rest
               /\ IF r.panic
                  THEN /\ run_pc' = "panicked"
                       /\ UNCHANGED <<signed_pkt_queue, downlink_mac,
                                      last_event, poc_sent, uplink_sent,
                                      sig_idx, udp_result, forwarded>>
                  ELSE /\ handle_udp_event(r.event)
                       /\ LET forward ==
                                IF uplink_sent' # None \/ poc_sent' # None
                                THEN forward_result ELSE "none"
                              result == handle_udp_event_result(r.event, forward)
                          IN  /\ udp_result' = Some([result |-> result,
                                                     forward |-> forward])
                              /\ run_pc' = IF result.ok THEN "select"
                                           ELSE "failed"
                       /\ forwarded' = IF uplink_sent' # None
                                       THEN Append(forwarded, next.message.tmst)
                                       ELSE forwarded
        /\ UNCHANGED <<shutdown, messages, messages_closed, closed_warnings,
                       udp_ready, tasks, fed, throttle_vars, card_tmst, txpkt>>

\* The loop of run on the messages of the card, with downlink requests and
\* their tasks.
CardReplies == {"Ok"}

CardNext ==
    \/ \E kind \in CardMessageKinds : CardSends(kind)
    \/ CardRecv
    \/ \E downlink \in RunDownlinks : SendDownlink(downlink)
    \/ MessageBranch
    \/ \E i \in 1..MaxTasks, reply \in CardReplies : TaskStart(i, reply)
    \/ \E i \in 1..MaxTasks, reply \in CardReplies : SendReturns(i, reply)

\* The loop of run on events of every kind handle_udp_event tells apart,
\* with downlink requests and shutdown.
LoopEvents ==
    {[type |-> "PacketReceived",
      rxpk |-> [version |-> "V1", crc |-> crc, mtype |-> mtype,
                key |-> None]] : crc \in {"OK", "Fail"}, mtype \in MTypes}
    \cup {[type |-> "PacketSigReceived", key |-> 1, sig |-> "sig_x"],
          [type |-> "UnableToParseUdpFrame"]}
    \cup {[type |-> "NewClient", mac |-> mac] : mac \in Macs}

EventNext ==
    \/ \E event \in LoopEvents : UdpArrives(event)
    \/ RecvBranch
    \/ \E downlink \in RunDownlinks : SendDownlink(downlink)
    \/ MessageBranch
    \/ TriggerShutdown
    \/ ShutdownBranch

RunNext ==
    \/ \E downlink \in RunDownlinks : SendDownlink(downlink)
    \/ CloseChannel
    \/ TriggerShutdown
    \/ \E event \in RunEvents : UdpArrives(event)
    \/ ShutdownBranch
    \/ RecvBranch
    \/ MessageBranch
    \/ ClosedBranch
    \/ \E i \in 1..MaxTasks, reply \in RunReplies : TaskStart(i, reply)
    \/ \E i \in 1..MaxTasks, reply \in RunReplies : SendReturns(i, reply)

----------------------------------------------------------------------------
(* The throttle against the complete list of its track_sent calls *)

MaxTracked == 3

\* The throttles at start: both models, from a time where every f32 is exact
\* and from one of the magnitude of a clock of milliseconds after 11 days,
\* where the f32 values lie 64 ms apart.
HistoryT0s == {0, 1000000000}
HistoryStarts ==
    {<<Some(mo), t>> : mo \in {us_dwell_time, common_duty}, t \in HistoryT0s}

\* Times on air: the one of a short frame (36 ms at SF7, 72 ms at SF8 in
\* test_us_time_on_air) and the longest permitted.
Short_ms == 40
HistoryToas == {Short_ms, MAX_TIME_ON_AIR}

\* Offsets of the calls: the origin, one period later, and one f32 spacing
\* after that.
F32_SPACING == 64
HistoryOffsets(mo) == {0, Period(mo), Period(mo) + F32_SPACING}

HistoryInit ==
    /\ \E start \in HistoryStarts : model = start[1] /\ t0 = start[2]
    /\ sent_packets = <<>>
    /\ tracked = <<>>
    /\ last_call = [op |-> "none"]

\* track_sent, called in the order of time; tracked notes every call.
TrackSentNoted(d, frequency, toa) ==
    /\ Len(tracked) < MaxTracked
    /\ tracked # <<>> => tracked[Len(tracked)].sent_at <= t0 + d
    /\ sent_packets' \in track_sent(model, sent_packets, t0 + d, frequency, toa)
    /\ tracked' = Append(tracked, [frequency |-> frequency, sent_at |-> t0 + d,
                                   time_on_air |-> toa])
    /\ last_call' = [op |-> "track_sent", at |-> t0 + d, frequency |-> frequency,
                     time_on_air |-> toa]
    /\ UNCHANGED <<model, t0, gateway_vars, run_vars, io_vars>>

\* can_send, asked about a time not before the last tracked one.
CanSendLater(d, frequency, toa) ==
    /\ tracked # <<>>
    /\ tracked[Len(tracked)].sent_at <= t0 + d
    /\ CanSend(d, frequency, toa)

HistoryNext ==
    \/ \E d \in HistoryOffsets(model), f \in Channels, toa \in HistoryToas :
         TrackSentNoted(d, f, toa)
    \/ \E d \in HistoryOffsets(model), f \in Channels, toa \in HistoryToas :
         CanSendLater(d, f, toa)

\* The sender that asks can_send and tracks what it is permitted: the US
\* throttle around each origin.
GatedOffsets == {0, us_dwell_time.period - 1, us_dwell_time.period}
GatedToas == {200, 400}

GatedInit ==
    /\ model = Some(us_dwell_time)
    /\ t0 \in T0s
    /\ sent_packets = <<>>
    /\ tracked = <<>>
    /\ last_call = [op |-> "none"]

\* can_send(t, f, toa) returns true, and track_sent(t, f, toa) follows.
GatedSend(d, frequency, toa) ==
    /\ Len(tracked) < MaxTracked
    /\ tracked # <<>> => tracked[Len(tracked)].sent_at <= t0 + d
    /\ LET r == can_send(model, sent_packets, t0 + d, frequency, toa)
       IN  /\ ~r.panic
           /\ r.result
           /\ last_call' = [op |-> "send", at |-> t0 + d,
                            frequency |-> frequency, time_on_air |-> toa,
                            result |-> r.result, panic |-> r.panic]
    /\ sent_packets' \in track_sent(model, sent_packets, t0 + d, frequency, toa)
    /\ tracked' = Append(tracked, [frequency |-> frequency, sent_at |-> t0 + d,
                                   time_on_air |-> toa])
    /\ UNCHANGED <<model, t0, gateway_vars, run_vars, io_vars>>

GatedNext ==
    \E d \in GatedOffsets, f \in Channels, toa \in GatedToas :
        GatedSend(d, f, toa)

----------------------------------------------------------------------------
(* Time on air *)

\* An f32 that need not be an integer is the pair of its 24-bit significand and
\* its exponent: [m, e] stands for m * 2^e with 2^23 <= m < 2^24, and zero is
\* [m |-> 0, e |-> 0].
RECURSIVE f32_normal(_, _)
f32_normal(m, e) ==
    IF m = 0 THEN [m |-> 0, e |-> 0]
    ELSE IF m >= 2^24 THEN f32_normal(m \div 2, e + 1)
    ELSE IF m < 2^23 THEN f32_normal(2 * m, e - 1)
    ELSE [m |-> m, e |-> e]

\* The significand q, or q + 1, that rounding to the nearest (ties to even)
\* keeps when the part cut off is r / unit.
f32_round(q, r, unit, e) ==
    LET m == IF (2 * r > unit) \/ (2 * r = unit /\ q % 2 = 1) THEN q + 1 ELSE q
    IN  IF m = 2^24 THEN [m |-> 2^23, e |-> e + 1] ELSE [m |-> m, e |-> e]

\* `n as f32` for an integer 0 <= n < 2^31: F32(n) is a multiple of its
\* spacing, so that the halvings of f32_normal are exact.
u32_as_f32(n) == f32_normal(F32(n), 0)

\* `w as f32` for the u32 w = 2^32 - a, 0 < a <= 2^31, the values a
\* subtraction wraps to: they lie 256 apart in f32.
wrapped_as_f32(a) ==
    LET c == (a + 255) \div 256
    IN  f32_round(2^24 - c, c * 256 - a, 256, 8)

\* The binary long division of f32_div: (q + r / d) * 2^e is the quotient.
RECURSIVE f32_div_bits(_, _, _, _)
f32_div_bits(q, r, d, e) ==
    IF q >= 2^23 THEN f32_round(q, r, d, e)
    ELSE f32_div_bits(2 * q + (IF 2 * r >= d THEN 1 ELSE 0), (2 * r) % d, d,
                      e - 1)

\* x / (d as f32) in f32, for an integer 0 < d < 2^24.
f32_div(x, d) ==
    IF x.m = 0 THEN x ELSE f32_div_bits(x.m \div d, x.m % d, d, x.e)

\* x * y in f32: the 48-bit product of the significands, held in two halves of
\* 24 bits, rounded to its leading 24 bits.
f32_mul(x, y) ==
    LET a1 == x.m \div 4096
        b1 == x.m % 4096
        a2 == y.m \div 4096
        b2 == y.m % 4096
        mid == a1 * b2 + a2 * b1
        low == (mid % 4096) * 4096 + b1 * b2
        hi == a1 * a2 + (mid \div 4096) + (low \div 2^24)
        lo == low % 2^24
    IN  IF x.m = 0 \/ y.m = 0 THEN [m |-> 0, e |-> 0]
        ELSE IF hi >= 2^23 THEN f32_round(hi, lo, 2^24, x.e + y.e + 24)
        ELSE f32_round(2 * hi + (lo \div 2^23), lo % 2^23, 2^23,
                       x.e + y.e + 23)

\* x.ceil() as u32, for 0 <= x < 2^31.
f32_ceil(x) ==
    IF x.e >= 0 THEN x.m * 2^(x.e)
    ELSE IF x.e < -24 THEN (IF x.m = 0 THEN 0 ELSE 1)
    ELSE (x.m + 2^(-(x.e)) - 1) \div 2^(-(x.e))

\* x as u32, for 0 <= x < 2^31: the fraction is dropped.
f32_trunc(x) ==
    IF x.e >= 0 THEN x.m * 2^(x.e)
    ELSE IF x.e < -24 THEN 0
    ELSE x.m \div 2^(-(x.e))

\* 4.25 + preamble_symbols as f32 + payload_symbols as f32, added from the
\* left, in quarters while these fit: 4.25 + preamble_symbols is exact, the
\* symbol count is rounded by its cast and the sum once more.  From 2^28 on
\* the f32 values lie 32 and more apart, and an addend below 16 is rounded
\* away.
symbols_sum(preamble_symbols, symbols) ==
    IF symbols < 2^28
    THEN f32_normal(F32(17 + 4 * preamble_symbols + 4 * F32(symbols)), -2)
    ELSE u32_as_f32(symbols)

\* The numerator of payload_symbols, in u32, operation by operation from the
\* left.  A subtraction below zero panics where overflow checks are compiled
\* in (the debug profile) and wraps modulo 2^32 where they are not (the release
\* profile); wrapped values add up modulo 2^32, so that the wrapped numerator is
\* the exact one when that is not negative, and 2^32 - a when it is -a.
payload_numerator(spreading_factor, eh, payload_len, overflow_checks) ==
    LET t1 == 8 * payload_len - 4 * spreading_factor
        t2 == t1 + 28 + 16
        t3 == t2 - 20 * (1 - eh)
    IN  [panic |-> overflow_checks /\ (t1 < 0 \/ t3 < 0),
         value |-> IF t3 >= 0 THEN u32_as_f32(t3) ELSE wrapped_as_f32(-t3)]

\* max of two u32.
max(a, b) == IF a >= b THEN a ELSE b

\* The result is [panic, value]; the products and sums after the numerator stay
\* below 2^32 for payload_len <= 255, 5 <= spreading_factor <= 12 and
\* code_rate <= 8.
payload_symbols_no_header(spreading_factor, code_rate, explicit_header, payload_len, low_datarate_optimized, overflow_checks) ==
    LET eh == 0
        ldo == IF low_datarate_optimized THEN 1 ELSE 0
        n == payload_numerator(spreading_factor, eh, payload_len,
                               overflow_checks)
        quotient == f32_div(n.value, 4 * (spreading_factor - 2 * ldo))
    IN  [panic |-> n.panic,
         value |-> IF n.panic THEN 0
                   ELSE 8 + max(f32_ceil(quotient) * code_rate, 0)]

payload_symbols(spreading_factor, code_rate, explicit_header, payload_len, low_datarate_optimized, overflow_checks) ==
    LET eh == IF explicit_header THEN 1 ELSE 0
        ldo == IF low_datarate_optimized THEN 1 ELSE 0
        n == payload_numerator(spreading_factor, eh, payload_len,
                               overflow_checks)
        quotient == f32_div(n.value, 4 * (spreading_factor - 2 * ldo))
    IN  [panic |-> n.panic,
         value |-> IF n.panic THEN 0
                   ELSE 8 + max(f32_ceil(quotient) * code_rate, 0)]

\* Seconds, as an f32.
symbol_duration(bandwidth, spreading_factor) ==
    f32_div(u32_as_f32(2^spreading_factor), bandwidth)

\* The result is [panic, seconds], seconds an f32.
time_on_air(bandwidth, spreading_factor, code_rate, preamble_symbols, explicit_header, payload_len, overflow_checks) ==
    LET symbols == payload_symbols(spreading_factor, code_rate,
                                   explicit_header, payload_len,
                                   bandwidth <= 125000 /\ spreading_factor >= 11,
                                   overflow_checks)
    IN  [panic |-> symbols.panic,
         seconds |-> IF symbols.panic THEN [m |-> 0, e |-> 0]
                     ELSE f32_mul(symbol_duration(bandwidth, spreading_factor),
                                  symbols_sum(preamble_symbols, symbols.value))]

\* (seconds * 1000.0) as u32, for less than 2^31 ms.
ms(seconds) == f32_trunc(f32_mul(seconds, u32_as_f32(1000)))

\* The inputs: bandwidths of the US and EU channel plans, every spreading
\* factor and coding rate of LoRa, every length a u8 length field holds.
Bandwidths == {125000, 250000, 500000}
SpreadingFactors == 5..12
CodeRates == 5..8
PayloadLens == 0..255
Preambles == {8}
AirPayloadLens == {0, 1, 5, 6, 7, 51, 255}

\* The calls to make, their arguments drawn.  payload_symbols is private to
\* the module: its one caller, time_on_air, asks for the low data rate
\* optimization from spreading factor 11 on only.
PayloadSymbolsCalls ==
    {[op |-> "payload_symbols", returned |-> FALSE,
      spreading_factor |-> spreading_factor, code_rate |-> code_rate,
      explicit_header |-> explicit_header, payload_len |-> payload_len,
      low_datarate_optimized |-> low_datarate_optimized,
      overflow_checks |-> overflow_checks] :
        spreading_factor \in SpreadingFactors, code_rate \in CodeRates,
        explicit_header \in BOOLEAN, payload_len \in PayloadLens,
        low_datarate_optimized \in BOOLEAN, overflow_checks \in BOOLEAN}

TimeOnAirCalls ==
    [op : {"time_on_air"}, returned : {FALSE}, bandwidth : Bandwidths,
     spreading_factor : SpreadingFactors, code_rate : CodeRates,
     preamble_symbols : Preambles, explicit_header : BOOLEAN,
     payload_len : AirPayloadLens, overflow_checks : BOOLEAN]

AirtimeInit ==
    /\ model = None
    /\ sent_packets = <<>>
    /\ tracked = <<>>
    /\ t0 = 0
    /\ last_call \in
         {c \in PayloadSymbolsCalls :
              c.low_datarate_optimized => c.spreading_factor >= 11}
           \cup TimeOnAirCalls

PayloadSymbols ==
    /\ last_call.op = "payload_symbols"
    /\ ~last_call.returned
    /\ LET r == payload_symbols(last_call.spreading_factor,
                                last_call.code_rate, last_call.explicit_header,
                                last_call.payload_len,
                                last_call.low_datarate_optimized,
                                last_call.overflow_checks)
       IN  last_call' = [op |-> "payload_symbols", returned |-> TRUE,
                         spreading_factor |-> last_call.spreading_factor,
                         code_rate |-> last_call.code_rate,
                         explicit_header |-> last_call.explicit_header,
                         payload_len |-> last_call.payload_len,
                         low_datarate_optimized |->
                             last_call.low_datarate_optimized,
                         overflow_checks |-> last_call.overflow_checks,
                         panic |-> r.panic, result |-> r.value]
    /\ UNCHANGED <<model, sent_packets, t0, tracked, gateway_vars, run_vars,
                   io_vars>>

TimeOnAir ==
    /\ last_call.op = "time_on_air"
    /\ ~last_call.returned
    /\ LET r == time_on_air(last_call.bandwidth, last_call.spreading_factor,
                            last_call.code_rate, last_call.preamble_symbols,
                            last_call.explicit_header, last_call.payload_len,
                            last_call.overflow_checks)
       IN  last_call' = [op |-> "time_on_air", returned |-> TRUE,
                         bandwidth |-> last_call.bandwidth,
                         spreading_factor |-> last_call.spreading_factor,
                         code_rate |-> last_call.code_rate,
                         preamble_symbols |-> last_call.preamble_symbols,
                         explicit_header |-> last_call.explicit_header,
                         payload_len |-> last_call.payload_len,
                         overflow_checks |-> last_call.overflow_checks,
                         panic |-> r.panic, result |-> r.seconds]
    /\ UNCHANGED <<model, sent_packets, t0, tracked, gateway_vars, run_vars,
                   io_vars>>

AirtimeNext == PayloadSymbols \/ TimeOnAir

----------------------------------------------------------------------------
(* Specifications *)

Init == GatewayInit /\ ThrottleIdle /\ RunInit

Spec == Init /\ [][Next]_vars

ThrottleSpecInit == ThrottleInit /\ GatewayInit /\ RunInit

ThrottleSpec == ThrottleSpecInit /\ [][ThrottleNext]_vars

\* The gateway fed V3 beacons only, their keys recorded in fed.
FeedBeacon(key) ==
    /\ Len(fed) < MaxFeed
    /\ handle_packet_received([version |-> "V3", crc |-> "OK",
                               mtype |-> "Proprietary", key |-> Some(key)])
    /\ fed' = Append(fed, key)
    /\ UNCHANGED <<throttle_vars, run_vars, io_vars>>

FeedNext == \E key \in FeedKeys : FeedBeacon(key)

FeedSpec == Init /\ [][FeedNext]_vars

DutySpecInit == DutyInit /\ GatewayInit /\ RunInit

DutySpec == DutySpecInit /\ [][DutyNext]_vars

\* A gateway with the US throttle at hand, nothing tracked.
DownlinkSpecInit ==
    /\ GatewayInit
    /\ RunInit
    /\ model = Some(us_dwell_time)
    /\ sent_packets = <<>>
    /\ tracked = <<>>
    /\ t0 = 0
    /\ last_call = [op |-> "none"]

DownlinkSpec == DownlinkSpecInit /\ [][DownlinkNext]_vars

\* The tokio runtime runs every task that can run.
DownlinkFairSpec ==
    /\ DownlinkSpecInit
    /\ [][DownlinkNext]_vars
    /\ WF_vars(MessageBranch)
    /\ \A i \in 1..MaxTasks : WF_vars(TaskStep(i))

SchedulerSpec == DownlinkSpecInit /\ [][SchedulerNext]_vars

EventSpec == Init /\ [][EventNext]_vars

CardSpec == Init /\ [][CardNext]_vars

TxPktSpec == Init /\ [][TxPktNext]_vars

HistorySpecInit == HistoryInit /\ GatewayInit /\ RunInit

HistorySpec == HistorySpecInit /\ [][HistoryNext]_vars

GatedSpecInit == GatedInit /\ GatewayInit /\ RunInit

GatedSpec == GatedSpecInit /\ [][GatedNext]_vars

AirtimeSpecInit == AirtimeInit /\ GatewayInit /\ RunInit

AirtimeSpec == AirtimeSpecInit /\ [][AirtimeNext]_vars

\* select! polls its branches in random order, so that a branch that stays
\* ready is taken.
RunSpec ==
    /\ Init
    /\ [][RunNext]_vars
    /\ WF_vars(ShutdownBranch)
    /\ WF_vars(RecvBranch)

----------------------------------------------------------------------------
(* Claims about the signed-beacon queue *)

KeysOf(q) == [i \in 1..Len(q) |-> q[i].key]

V3Beacon(key) ==
    [version |-> "V3", crc |-> "OK", mtype |-> "Proprietary", key |-> Some(key)]

\* C1: after any sequence of gateway events the signed-beacon queue holds at
\* most 5 entries.
C1_QueueAtMostFive == Len(signed_pkt_queue) <= 5

\* C2: six distinct V3 beacons with keys 1..6 fed into an empty queue, no
\* signature in between, leave exactly the keys 2,3,4,5,6 in that order: the
\* sixth insertion finds the queue full and evicts the oldest entry.
C2_SixBeaconsEvictOldest ==
    fed = <<1, 2, 3, 4, 5, 6>> => KeysOf(signed_pkt_queue) = <<2, 3, 4, 5, 6>>

\* C3: a PacketSigReceived with key k removes exactly one entry, the oldest
\* (lowest-index) one with key k, the other entries keeping their order; with
\* no entry of key k the queue is left as it was.
C3_SigRemovesOldestMatch ==
    [][\A key \in Keys, sig \in SigBytes :
         PacketSigReceived(key, sig) =>
           LET q == signed_pkt_queue
               matches == {i \in 1..Len(q) : q[i].key = key}
           IN  IF matches = {}
               THEN signed_pkt_queue' = q
               ELSE \E i \in matches :
                      /\ \A j \in matches : i <= j
                      /\ Len(signed_pkt_queue') = Len(q) - 1
                      /\ \A j \in 1..(i - 1) : signed_pkt_queue'[j] = q[j]
                      /\ \A j \in (i + 1)..Len(q) : signed_pkt_queue'[j - 1] = q[j]
      ]_vars

\* A signature has just removed the second entry of the queue, the oldest of
\* its key, and a younger entry of the same key is still queued.
C3_Witness ==
    /\ last_event.type = "PacketSigReceived"
    /\ sig_idx = 2
    /\ \E i \in 2..Len(signed_pkt_queue) :
         signed_pkt_queue[i].key = last_event.key

\* C4: a V3 beacon reception with key k followed by a push_data_sig with the
\* same key k empties the queue and hands the beacon, carrying the signature
\* bytes of that push_data_sig, to the witness-report path (poc_packet).
C4_SigAttachedDownstream ==
    [][\A key \in Keys, sig \in SigBytes :
         ( /\ last_event = [type |-> "PacketReceived", rxpk |-> V3Beacon(key)]
           /\ signed_pkt_queue = <<[key |-> key]>>
           /\ PacketSigReceived(key, sig) )
         => /\ signed_pkt_queue' = <<>>
            /\ poc_sent' = Some([mtype |-> "Proprietary", key |-> Some(key),
                                 concentrator_sig |-> Some(sig)])
      ]_vars

----------------------------------------------------------------------------
(* Claims about the throttle *)

IsDwell == model # None /\ model[1].kind = "Dwell"
IsDuty == model # None /\ model[1].kind = "Duty"

\* C5: after every track_sent call on a throttle with a model, also one whose
\* sent_at is earlier than a tracked one, sent_packets is sorted by sent_at
\* and holds no entry with sent_at <= last.sent_at - period.
C5_SortedAndPruned ==
    /\ IsSorted(sent_packets)
    /\ \A i \in 1..Len(sent_packets) :
         sent_packets[i].sent_at
           > sent_packets[Len(sent_packets)].sent_at - Period(model)

\* The last track_sent call was earlier than a tracked packet and its packet
\* is kept, in front of that one.
C5_Witness ==
    /\ last_call.op = "track_sent"
    /\ Len(sent_packets) >= 2
    /\ sent_packets[1].sent_at = last_call.at
    /\ last_call.at < sent_packets[Len(sent_packets)].sent_at

\* C6: can_send returns false for every candidate whose time on air exceeds
\* 400 ms, whatever the model, the time, the frequency and the history.
C6_CapDenies ==
    (last_call.op = "can_send" /\ last_call.time_on_air > 400)
      => (~last_call.result /\ ~last_call.panic)

\* Under the Duty model and with nothing tracked, a candidate of 401 ms, far
\* below the duty limit, has been denied.
C6_Witness ==
    /\ IsDuty
    /\ sent_packets = <<>>
    /\ last_call.op = "can_send"
    /\ last_call.time_on_air = 401
    /\ ~last_call.result

\* C7: a throttle with no model denies everything and never fails: every
\* can_send returns false and track_sent returns leaving sent_packets as it was.
C7_NoModelDeniesAll ==
    [][model = None =>
         /\ sent_packets' = sent_packets
         /\ last_call'.op = "can_send" =>
              (~last_call'.result /\ ~last_call'.panic)
      ]_vars

\* A throttle with no model has denied a candidate within the 400 ms cap.
C7_Witness ==
    /\ model = None
    /\ last_call.op = "can_send"
    /\ last_call.time_on_air <= 400
    /\ ~last_call.result
    /\ sent_packets = <<>>

OnFrequency(packets, frequency) ==
    SelectSeq(packets, LAMBDA p : p.frequency = frequency)

Packet(frequency, sent_at, toa) ==
    [frequency |-> frequency, sent_at |-> sent_at, time_on_air |-> toa]

Asked(d, frequency, toa) ==
    /\ last_call.op = "can_send"
    /\ last_call.at = t0 + d
    /\ last_call.frequency = frequency
    /\ last_call.time_on_air = toa

\* The Dwell answer rests only on the tracked packets of the asked frequency.
DwellNonInterference ==
    IsDwell =>
      \A q \in Queries(model), f \in Channels :
        can_send(model, sent_packets, t0 + q[1], f, q[2])
          = can_send(model, OnFrequency(sent_packets, f), t0 + q[1], f, q[2])

\* C8: under Dwell, can_send(at, f, toa) depends only on the tracked packets of
\* frequency f; and with Dwell(400, 20000), after track_sent(t0, ch0, 400) and
\* track_sent(t0, ch1, 200): can_send(t0+1, ch0, 400) is false,
\* can_send(t0+1, ch1, 200) is true and can_send(t0+20000, ch0, 400) is true.
C8_DwellPerFrequency ==
    /\ DwellNonInterference
    /\ ( /\ IsDwell
         /\ sent_packets = <<Packet(ch0, t0, 400), Packet(ch1, t0, 200)>> )
       => /\ Asked(1, ch0, 400) => ~last_call.result
          /\ Asked(1, ch1, 200) => last_call.result
          /\ Asked(20000, ch0, 400) => last_call.result

\* The dwell a tracked packet adds from cutoff on, in exact arithmetic.
ExactContribution(p, cutoff) ==
    IF p.sent_at + p.time_on_air < cutoff THEN 0
    ELSE IF p.sent_at <= cutoff THEN p.time_on_air - (cutoff - p.sent_at)
    ELSE p.time_on_air

\* The sum of the exact contributions of the entries i..j.
RECURSIVE ExactDwellFrom(_, _, _, _)
ExactDwellFrom(packets, cutoff, i, j) ==
    IF i > j THEN 0
    ELSE IF i = j THEN ExactContribution(packets[i], cutoff)
    ELSE LET mid == (i + j) \div 2
         IN  ExactDwellFrom(packets, cutoff, i, mid)
               + ExactDwellFrom(packets, cutoff, mid + 1, j)

ExactDwell(packets, cutoff, i) == ExactDwellFrom(packets, cutoff, i, Len(packets))

\* C9: under Dwell the candidate is permitted iff the dwell accumulated on its
\* frequency from cutoff = at - period + toa, plus toa, is at most limit, a
\* tracked packet adding 0 if sent_at + toa_p < cutoff, toa_p - (cutoff -
\* sent_at) if sent_at <= cutoff and toa_p otherwise; and with Dwell(400,
\* 20000) and (t0, ch1, 200) tracked, can_send(t0+20000-200+1, ch1, 200) is
\* true and can_send(t0+20000-200-1, ch1, 201) is false.
C9_DwellFormula ==
    (IsDwell /\ last_call.op = "can_send") =>
      /\ ~last_call.panic
      /\ last_call.result =
           ( ExactDwell(OnFrequency(sent_packets, last_call.frequency),
                        last_call.at - model[1].period + last_call.time_on_air, 1)
               + last_call.time_on_air <= model[1].limit )
      /\ sent_packets = <<Packet(ch1, t0, 200)>> =>
           /\ Asked(20000 - 200 + 1, ch1, 200) => last_call.result
           /\ Asked(20000 - 200 - 1, ch1, 201) => ~last_call.result

\* C10: under Dwell(400, 20000), after a single track_sent(t0, f, 400),
\* can_send(t, f, 400) is false for every t with t0 <= t < t0 + period and
\* true for every t >= t0 + period.
C10_BlockedOnePeriod ==
    \A f \in Channels :
      ( /\ IsDwell
        /\ sent_packets = <<Packet(f, t0, 400)>>
        /\ last_call.op = "can_send"
        /\ last_call.frequency = f
        /\ last_call.time_on_air = 400
        /\ last_call.at >= t0 )
      => (last_call.result <=> last_call.at >= t0 + 20000)

----------------------------------------------------------------------------
(* Claims about the Duty model *)

\* The Duty answer in exact arithmetic: the dwell of all tracked packets from
\* cutoff = at - period, plus toa, over period, is below limit.
ExactDuty(packets, at, toa) ==
    (ExactDwell(packets, at - common_duty.period, 1) + toa)
        * common_duty.limit_den
      < common_duty.limit_num * common_duty.period

\* C11: under Duty, can_send(at, f, toa) is true iff the dwell of all tracked
\* packets, of any frequency, from cutoff = at - period, plus toa, over period
\* is strictly below limit; and with Duty(0.01, 3600000) each of 3599 sends of
\* 10 ms on ch0 at 0, 1000, ..., 3598000 is permitted when asked just before
\* it is tracked, and then can_send(3599000, ch1, 10) is false.
C11_DutyAggregate ==
    [][(IsDuty /\ last_call'.op \in {"send", "can_send"}) =>
         /\ ~last_call'.panic
         /\ last_call'.result
              = ExactDuty(sent_packets, last_call'.at, last_call'.time_on_air)
         /\ (t0 = 0 /\ last_call'.op = "send" /\ last_call'.time_on_air = 10)
              => last_call'.result
         /\ ( /\ t0 = 0
              /\ Len(sent_packets) = 3599
              /\ sent_packets[1].time_on_air = 10
              /\ last_call'.op = "can_send"
              /\ last_call'.at = 3599000
              /\ last_call'.frequency = ch1
              /\ last_call'.time_on_air = 10 )
              => ~last_call'.result
      ]_vars

----------------------------------------------------------------------------
(* Claims on the downlink tasks *)

BothWindows == [rx1 |-> "ok", rx2 |-> "ok"]
Finished(task) == task.pc \in {"done", "panicked"}

\* C12: a task for a PacketDown with both windows whose first send was
\* answered ErrTooLate dispatches a second time, on rx2, and when that send is
\* answered Ok it ends with success and without a panic.
C12_TooLateThenOk ==
    \A i \in 1..Len(tasks) :
        ( /\ tasks[i].downlink = BothWindows
          /\ Finished(tasks[i])
          /\ Len(tasks[i].sends) >= 1
          /\ tasks[i].sends[1].reply = "ErrTooLate" )
        => /\ Len(tasks[i].sends) = 2
           /\ tasks[i].sends[2].window = "rx2"
           /\ tasks[i].sends[2].reply = "Ok"
                => (tasks[i].pc = "done" /\ tasks[i].rx2_result = Some(Ok(None)))

RetryAck(result) ==
    ~result.ok /\ result.err \in {"Ack(TooEarly)", "Ack(TooLate)"}

\* C13: in a downlink task the first dispatch is rx1; an rx2 dispatch is made
\* only after the rx1 dispatch has returned, only when it returned
\* Ack(TooEarly) or Ack(TooLate) and only when the PacketDown has an rx2
\* window; after any other rx1 result exactly one dispatch is made; and no
\* task dispatches more than twice.
C13_Rx2OnlyAfterRx1 ==
    \A i \in 1..Len(tasks) :
        LET task == tasks[i]
        IN  /\ Len(task.sends) <= 2
            /\ Len(task.sends) >= 1 => task.sends[1].window = "rx1"
            /\ task.pc = "rx1_dispatch" => Len(task.sends) = 1
            /\ Len(task.sends) = 2 =>
                 /\ task.sends[2].window = "rx2"
                 /\ task.rx1_result # None
                 /\ RetryAck(task.rx1_result[1])
                 /\ task.downlink.rx2 # "absent"
            /\ (task.rx1_result # None /\ ~RetryAck(task.rx1_result[1])) =>
                 (Len(task.sends) = 1 /\ task.pc = "done")

\* Tasks after each kind of rx1 result: success, SendTimeout and Ack(SendFail)
\* with one dispatch, Ack(TooLate) with a second one on rx2, and Ack(TooEarly)
\* without one for want of an rx2 window.
C13_Witness ==
    /\ Len(tasks) = 2
    /\ tasks[1].downlink = BothWindows
    /\ tasks[1].rx1_result = Some(Err("Ack(TooLate)"))
    /\ Len(tasks[1].sends) = 2
    /\ tasks[1].pc = "done"
    /\ tasks[2].downlink = BothWindows
    /\ tasks[2].rx1_result = Some(Err("SendTimeout"))
    /\ Len(tasks[2].sends) = 1
    /\ tasks[2].pc = "done"

\* The result the dispatch table gives for an answer of the card.
ClaimedDispatchResult(reply) ==
    CASE reply = "Ok" -> Ok(None)
      [] reply \in {"ErrTooEarly", "ErrTooLate", "ErrPacketCollision",
                    "ErrQueueFull"} -> Err("Ack(TooLate)")
      [] reply = "ErrIO" -> Err("Ack(SendFail)")
      [] reply = "TransportFailure" -> Err("SendTimeout")

\* C14: a dispatch that has returned gave Ok(None) for Ok, Ack(TooLate) for
\* ErrTooEarly, ErrTooLate, ErrPacketCollision and ErrQueueFull, Ack(SendFail)
\* for ErrIO and SendTimeout for a transport failure.
C14_DispatchMapping ==
    \A i \in 1..Len(tasks) :
        /\ tasks[i].rx1_result # None =>
             tasks[i].rx1_result[1]
               = ClaimedDispatchResult(tasks[i].sends[1].reply)
        /\ tasks[i].rx2_result # None =>
             tasks[i].rx2_result[1]
               = ClaimedDispatchResult(tasks[i].sends[2].reply)

\* C15: of the tasks for a PacketDown with both windows whose rx1 dispatch has
\* returned, those whose send was answered ErrTooEarly or ErrTooLate, and only
\* those, go on to an rx2 dispatch; ErrQueueFull and ErrPacketCollision do not.
C15_RetryOnTimingOnly ==
    \A i \in 1..Len(tasks) :
        (tasks[i].downlink = BothWindows /\ tasks[i].rx1_result # None)
        => ( Len(tasks[i].sends) = 2
               <=> tasks[i].sends[1].reply \in {"ErrTooEarly", "ErrTooLate"} )

\* C16: a task that awaits a dispatch gets its result, SendTimeout when the
\* send is never answered, and ends.
C16_DispatchBounded ==
    \A i \in 1..MaxTasks :
        ( /\ i \in 1..Len(tasks)
          /\ tasks[i].pc = "rx1_dispatch"
          /\ tasks[i].sends[1].reply = "Never" )
        ~> ( /\ i \in 1..Len(tasks)
             /\ tasks[i].pc = "done"
             /\ tasks[i].rx1_result = Some(Err("SendTimeout")) )

\* C17: when a task has dispatched, the throttle was asked can_send before and
\* answered true.
C17_ThrottleConsulted ==
    \A i \in 1..Len(tasks) :
        Len(tasks[i].sends) >= 1 =>
            (last_call.op = "can_send" /\ last_call.result)

\* C18: a task for a PacketDown of which no rx1 TxPk can be computed makes no
\* dispatch and does not panic.
C18_NoRx1NotFatal ==
    \A i \in 1..Len(tasks) :
        ~to_rx1_pull_resp(tasks[i].downlink).ok =>
            (Len(tasks[i].sends) = 0 /\ tasks[i].pc # "panicked")

----------------------------------------------------------------------------
(* Claims on the loop of run *)

C21_ClosedLoggedOnce == closed_warnings <= 1

\* C22: handle_udp_event returns Ok whatever the event and whatever its
\* forwarding returned, and run leaves its loop only by returning upon
\* shutdown.
C22_EventsNeverEndLoop ==
    /\ udp_result # None => udp_result[1].result = Ok(None)
    /\ run_pc # "select" => (run_pc = "returned" /\ shutdown)

\* The forwarding of an uplink has failed and run is still in its loop.
C22_Witness ==
    /\ udp_result # None
    /\ udp_result[1].forward = "Err"
    /\ last_event.type = "PacketReceived"
    /\ uplink_sent # None
    /\ run_pc = "select"
    /\ ~shutdown

\* C23: a message of the card that recv cannot decode does not crash run.
C23_DecodeFailureNotFatal == run_pc # "panicked"

\* C24: downlink_mac changes only when a NewClient event is handled, and
\* then to the MAC of that event; a downlink request leaves it as it is and
\* asks for its two handles with the downlink_mac of that moment, the MAC of
\* the last NewClient handled before.
C24_DownlinkMac ==
    [][ LET handled == IF udp_ready # None /\ udp_ready' = None
                       THEN udp_ready[1] ELSE [type |-> "none"]
        IN  /\ downlink_mac' # downlink_mac => handled.type = "NewClient"
            /\ handled.type = "NewClient" => downlink_mac' = handled.mac
            /\ Len(tasks') > Len(tasks) =>
                 /\ downlink_mac' = downlink_mac
                 /\ Len(tasks') = Len(tasks) + 1
                 /\ tasks'[Len(tasks')].rx1_mac = downlink_mac
                 /\ tasks'[Len(tasks')].rx2_mac = downlink_mac
      ]_vars

\* Two requests, one from before and one from after the NewClient of mac_a.
C24_Witness ==
    /\ Len(tasks) = 2
    /\ tasks[1].rx1_mac = NilMac
    /\ tasks[1].rx2_mac = NilMac
    /\ tasks[2].rx1_mac = "mac_a"
    /\ tasks[2].rx2_mac = "mac_a"
    /\ downlink_mac = "mac_b"
    /\ last_event.type = "NewClient"

----------------------------------------------------------------------------
(* Claims on the routing of receptions *)

PacketOf(rxpk) ==
    [mtype |-> rxpk.mtype, key |-> rxpk.key, concentrator_sig |-> None]

\* C25: the handling of a PacketReceived event forwards nothing when the CRC
\* status is not OK (from_rxpk rejects it with invalid_crc); otherwise it
\* hands the packet to poc_packet and not to uplink when the MAC type is
\* Proprietary, and to uplink and not to poc_packet when it is not.
C25_ReceptionRoutedOnce ==
    [][\A rxpk \in RxPks :
         PacketReceived(rxpk) =>
           IF rxpk.crc # "OK"
           THEN /\ from_rxpk(rxpk) = [ok |-> FALSE, err |-> "invalid_crc"]
                /\ poc_sent' = None
                /\ uplink_sent' = None
           ELSE IF rxpk.mtype = "Proprietary"
           THEN /\ poc_sent' = Some(PacketOf(rxpk))
                /\ uplink_sent' = None
           ELSE /\ uplink_sent' = Some(PacketOf(rxpk))
                /\ poc_sent' = None
      ]_vars

\* A reception with a failed CRC has been handled and nothing was forwarded.
C25_Witness ==
    /\ last_event.type = "PacketReceived"
    /\ last_event.rxpk.crc = "Fail"
    /\ poc_sent = None
    /\ uplink_sent = None

IsSignedBeacon(rxpk) ==
    rxpk.version = "V3" /\ rxpk.crc = "OK" /\ rxpk.mtype = "Proprietary"

\* C26: the queue gets an entry only from a V3 reception with CRC OK and MAC
\* type Proprietary, the entry of that record; any other reception, a
\* signature without a match and every other event leave the queue as it is.
C26_QueueOnlyFromSignedBeacons ==
    [][ /\ \A rxpk \in RxPks :
             PacketReceived(rxpk) =>
               IF IsSignedBeacon(rxpk)
               THEN signed_pkt_queue' =
                      Append(IF Len(signed_pkt_queue) > 5
                             THEN Tail(signed_pkt_queue)
                             ELSE signed_pkt_queue,
                             [key |-> rxpk.key[1]])
               ELSE signed_pkt_queue' = signed_pkt_queue
        /\ signed_pkt_queue' # signed_pkt_queue =>
             \/ \E rxpk \in RxPks : IsSignedBeacon(rxpk) /\ PacketReceived(rxpk)
             \/ \E key \in Keys, sig \in SigBytes :
                  /\ PacketSigReceived(key, sig)
                  /\ \E i \in 1..Len(signed_pkt_queue) :
                       signed_pkt_queue[i].key = key
      ]_vars

\* A V3 uplink with CRC OK has been handled while the queue held the entry of
\* an earlier beacon, and only that.
C26_Witness ==
    /\ last_event.type = "PacketReceived"
    /\ last_event.rxpk.version = "V3"
    /\ last_event.rxpk.crc = "OK"
    /\ last_event.rxpk.mtype = "UnconfirmedUp"
    /\ Len(signed_pkt_queue) = 1

----------------------------------------------------------------------------
(* Claims on the order of uplinks and on the concurrency of downlinks *)

IsStrictlyIncreasing(seq) ==
    \A i \in 1..Len(seq) - 1 : seq[i] < seq[i + 1]

\* C27: the loop takes the messages of the card one at a time in the order the
\* card sent them, and hands each accepted non-beacon reception to uplink
\* when it takes it: the uplinks are forwarded in the card's order, whatever
\* the downlink requests and tasks do in between.
C27_UplinksInCardOrder ==
    /\ [](/\ IsStrictlyIncreasing(forwarded)
          /\ IsStrictlyIncreasing([i \in 1..Len(rx_stream) |-> rx_stream[i].tmst])
          /\ \A i \in 1..Len(forwarded), j \in 1..Len(rx_stream) :
               forwarded[i] < rx_stream[j].tmst)
    /\ [][ /\ rx_stream' # rx_stream /\ card_tmst' = card_tmst =>
                LET m == Head(rx_stream)
                IN  /\ rx_stream' = Tail(rx_stream)
                    /\ forwarded' =
                         IF /\ m.decodes = "ok"
                            /\ m.crc = "OK"
                            /\ m.mtype # "Proprietary"
                         THEN Append(forwarded, m.tmst)
                         ELSE forwarded
           /\ forwarded' # forwarded => rx_stream' # rx_stream
         ]_vars

\* Two uplinks, the first and the third message of the card, have been
\* forwarded, a request was handled between them and its task is under way.
C27_Witness ==
    /\ forwarded = <<1, 3>>
    /\ Len(tasks) >= 1
    /\ tasks[1].pc = "rx1_dispatch"

\* C28: a request taken from the channel becomes exactly one task, spawned
\* and not yet run when its handling is over, and tasks come from nowhere
\* else; the loop is ready for the next request and the next message of the
\* card whatever the tasks are doing, and every dispatch that is pending can
\* return, whatever the other tasks are doing.
C28_DetachedTasks ==
    /\ [][ /\ Len(messages') < Len(messages) =>
                /\ messages' = Tail(messages)
                /\ tasks' = Append(tasks,
                                   handle_downlink(Head(messages), downlink_mac))
                /\ run_pc' = "select"
           /\ tasks' # tasks /\ Len(messages') >= Len(messages) =>
                /\ messages' = messages
                /\ Len(tasks') = Len(tasks)
                /\ \A i \in 1..Len(tasks) :
                     tasks'[i].downlink = tasks[i].downlink
         ]_vars
    /\ [](run_pc = "select" =>
            /\ messages # <<>> => ENABLED MessageBranch
            /\ rx_stream # <<>> => ENABLED CardRecv)
    /\ [](\A i \in 1..Len(tasks) :
            tasks[i].pc = "rx1_dispatch" => ENABLED SendReturns(i, "Ok"))

\* The dispatches of two requests are pending at the same time, either can
\* return first, and the loop has a message of the card to handle.
C28_Witness ==
    /\ Len(tasks) = 2
    /\ tasks[1].pc = "rx1_dispatch"
    /\ tasks[2].pc = "rx1_dispatch"
    /\ ENABLED SendReturns(1, "Ok")
    /\ ENABLED SendReturns(2, "Ok")
    /\ run_pc = "select"
    /\ rx_stream # <<>>
    /\ ENABLED CardRecv

\* C29: a handle without a packet panics when dispatched, and no task
\* dispatches one: the handle of every dispatch made has its packet set, a
\* task panics only on a window of which no TxPk can be built, and the rx2
\* handle of a task that makes no rx2 dispatch stays empty.
C29_NoNullDispatch ==
    \A i \in 1..Len(tasks) :
        LET task == tasks[i]
        IN  /\ dispatch(prepare_empty_downlink(task.rx1_mac),
                        DOWNLINK_TIMEOUT_SECS, "Ok").panic
            /\ Len(task.sends) >= 1 =>
                 /\ task.downlink_rx1.packet # None
                 /\ ~dispatch(task.downlink_rx1, DOWNLINK_TIMEOUT_SECS,
                              "Ok").panic
            /\ Len(task.sends) = 2 =>
                 /\ task.downlink_rx2.packet # None
                 /\ ~dispatch(task.downlink_rx2, DOWNLINK_TIMEOUT_SECS,
                              "Ok").panic
            /\ Len(task.sends) < 2 => task.downlink_rx2.packet = None
            /\ task.pc = "panicked" =>
                 \/ task.downlink.rx1 # "ok"
                 \/ /\ task.downlink.rx2 = "unsupported"
                    /\ task.rx1_result # None
                    /\ RetryAck(task.rx1_result[1])

\* One task has dispatched on both handles, another has ended after its rx1
\* dispatch with its rx2 handle still empty.
C29_Witness ==
    /\ Len(tasks) = 2
    /\ tasks[1].pc = "done"
    /\ Len(tasks[1].sends) = 2
    /\ tasks[1].downlink_rx2.packet # None
    /\ tasks[2].pc = "done"
    /\ Len(tasks[2].sends) = 1
    /\ tasks[2].downlink.rx2 = "ok"
    /\ tasks[2].downlink_rx2.packet = None

\* C30: the tx-mode of the TxPkt is Immediate when the TxPk is marked
\* immediate; otherwise Timestamped, with the tmst of the TxPk as the
\* timestamp of the TxPkt, when the TxPk has one; otherwise OnGPS.
C30_TxMode ==
    txpkt # None =>
        LET pkt == txpkt[1].pkt
            sent == txpkt[1].sent
        IN  IF pkt.imme THEN sent.tx_mode = "Immediate"
            ELSE IF pkt.tmst # None
            THEN sent.tx_mode = "Timestamped" /\ sent.tx_tmst = pkt.tmst[1]
            ELSE sent.tx_mode = "OnGPS"

\* The TxPkt of a TxPk that is marked immediate and has a tmst as well.
C30_Witness ==
    /\ txpkt # None
    /\ txpkt[1].pkt.imme
    /\ txpkt[1].pkt.tmst = Some(1)
    /\ txpkt[1].sent.tx_mode = "Immediate"

----------------------------------------------------------------------------
(* Claims about the time on air *)

\* The reference airtimes in ms of test_us_time_on_air, by payload length and
\* spreading factor.
ReferenceMs(payload_len, spreading_factor) ==
    IF payload_len = 7
    THEN CASE spreading_factor = 12 -> 991
           [] spreading_factor = 11 -> 495
           [] spreading_factor = 10 -> 247
           [] spreading_factor = 9 -> 123
           [] spreading_factor = 8 -> 72
           [] spreading_factor = 7 -> 36
    ELSE CASE spreading_factor = 12 -> 2465
           [] spreading_factor = 11 -> 1314
           [] spreading_factor = 10 -> 616
           [] spreading_factor = 9 -> 328
           [] spreading_factor = 8 -> 184
           [] spreading_factor = 7 -> 102

IsReferenceCall ==
    /\ last_call.op = "time_on_air"
    /\ last_call.returned
    /\ last_call.bandwidth = 125000
    /\ last_call.code_rate = 5
    /\ last_call.preamble_symbols = 8
    /\ last_call.explicit_header
    /\ last_call.payload_len \in {7, 51}
    /\ last_call.spreading_factor \in 7..12

\* C31: at 125 kHz, coding rate 5, preamble 8 and explicit header,
\* time_on_air returns, in whole milliseconds, 991, 495, 247, 123, 72, 36 for a
\* payload of 7 bytes and 2465, 1314, 616, 328, 184, 102 for a payload of 51
\* bytes at spreading factors 12, 11, 10, 9, 8, 7, in every build.
C31_ReferenceAirtimes ==
    IsReferenceCall =>
        /\ ~last_call.panic
        /\ ms(last_call.result)
             = ReferenceMs(last_call.payload_len, last_call.spreading_factor)

C31_Witness ==
    /\ IsReferenceCall
    /\ last_call.payload_len = 51
    /\ last_call.spreading_factor = 11
    /\ ms(last_call.result) = 1314

\* ceil(n / d) for an integer n of either sign and d > 0.
CeilDiv(n, d) == -((-n) \div d)

\* The symbol count of the LoRa airtime formula, over the integers.
FormulaSymbols(spreading_factor, code_rate, explicit_header, payload_len, low_datarate_optimized) ==
    LET eh == IF explicit_header THEN 1 ELSE 0
        ldo == IF low_datarate_optimized THEN 1 ELSE 0
        n == 8 * payload_len - 4 * spreading_factor + 28 + 16 - 20 * (1 - eh)
        symbols == CeilDiv(n, 4 * (spreading_factor - 2 * ldo)) * code_rate
    IN  8 + (IF symbols > 0 THEN symbols ELSE 0)

\* C32: for every payload_len in 0..255, spreading factor in 5..12 and both
\* header modes payload_symbols returns 8 + max(ceil((8 * payload_len - 4 * SF
\* + 28 + 16 - 20 * (1 - eh)) / (4 * (SF - 2 * ldo))) * code_rate, 0): no u32
\* operation goes below zero, and a negative numerator gives 8 symbols.
C32_PayloadSymbolsFormula ==
    (last_call.op = "payload_symbols" /\ last_call.returned) =>
        /\ ~last_call.panic
        /\ last_call.result
             = FormulaSymbols(last_call.spreading_factor, last_call.code_rate,
                              last_call.explicit_header, last_call.payload_len,
                              last_call.low_datarate_optimized)

\* The same for the builds without overflow checks and the inputs whose
\* numerator is not negative.
C32_NonNegativeNumerator ==
    (/\ last_call.op = "payload_symbols"
     /\ last_call.returned
     /\ ~last_call.overflow_checks
     /\ 8 * last_call.payload_len + 44
          >= 4 * last_call.spreading_factor
               + (IF last_call.explicit_header THEN 0 ELSE 20)) =>
        /\ ~last_call.panic
        /\ last_call.result
             = FormulaSymbols(last_call.spreading_factor, last_call.code_rate,
                              last_call.explicit_header, last_call.payload_len,
                              last_call.low_datarate_optimized)

\* With overflow checks the call returns exactly when 8 * payload_len is at
\* least 4 * SF.
C32_PanicWhenChecked ==
    (/\ last_call.op = "payload_symbols"
     /\ last_call.returned
     /\ last_call.overflow_checks) =>
        (last_call.panic
           <=> 8 * last_call.payload_len < 4 * last_call.spreading_factor)

----------------------------------------------------------------------------
(* Claims about the throttle and the complete list of tracked packets *)

\* C33: the assertion relevant_time_on_air >= 0 of dwell_time holds for every
\* tracked list, cutoff and frequency filter: no can_send call panics.
C33_AssertionHolds == last_call.op = "can_send" => ~last_call.panic

\* The same where every time is an f32: origin 0.
C33_AssertionHoldsExact ==
    (last_call.op = "can_send" /\ t0 = 0) => ~last_call.panic

\* can_send answered from the complete list of tracked packets, for the
\* arguments of the last call.
FromComplete ==
    can_send(model, tracked, last_call.at, last_call.frequency,
             last_call.time_on_air)

\* C34: after track_sent calls of non-decreasing sent_at, can_send(at, f, toa)
\* with at not before the last tracked sent_at answers from the pruned list as
\* it would from the complete list of tracked packets, under Dwell and Duty.
C34_PruningTransparent ==
    last_call.op = "can_send" =>
        /\ last_call.result = FromComplete.result
        /\ last_call.panic = FromComplete.panic

\* The same where every time is an f32: origin 0.
C34_PruningTransparentExact ==
    (last_call.op = "can_send" /\ t0 = 0) =>
        /\ last_call.result = FromComplete.result
        /\ last_call.panic = FromComplete.panic

\* The same under Duty.
C34_PruningTransparentDuty ==
    (last_call.op = "can_send" /\ IsDuty) =>
        /\ last_call.result = FromComplete.result
        /\ last_call.panic = FromComplete.panic

\* The part, in ms, of a packet's transmission inside [w, w + period).
InsideWindow(p, w, period) ==
    LET from == IF p.sent_at > w THEN p.sent_at ELSE w
        to == IF p.sent_at + p.time_on_air < w + period
              THEN p.sent_at + p.time_on_air ELSE w + period
    IN  IF to > from THEN to - from ELSE 0

\* The time on air of the packets on frequency inside [w, w + period).
RECURSIVE WindowAirtime(_, _, _, _)
WindowAirtime(packets, frequency, w, period) ==
    IF packets = <<>> THEN 0
    ELSE (IF Head(packets).frequency = frequency
          THEN InsideWindow(Head(packets), w, period) ELSE 0)
         + WindowAirtime(Tail(packets), frequency, w, period)

\* The windows that hold the most: the ones that start with a transmission
\* and the ones that end with one.
WindowStarts(packets, period) ==
    {packets[i].sent_at : i \in 1..Len(packets)}
      \cup {packets[i].sent_at + packets[i].time_on_air - period :
              i \in 1..Len(packets)}

NoOverlap(packets) ==
    \A i, j \in 1..Len(packets) :
        (i < j /\ packets[i].frequency = packets[j].frequency) =>
            packets[i].sent_at + packets[i].time_on_air <= packets[j].sent_at

\* C35: under Dwell, when every track_sent(t, f, toa) follows a can_send(t, f,
\* toa) that returned true and the times do not decrease, the tracked
\* transmissions of one frequency inside any window of one period add up to at
\* most limit.
C35_DwellLimitEnforced ==
    IsDwell =>
        \A f \in Channels, w \in WindowStarts(tracked, model[1].period) :
            WindowAirtime(tracked, f, w, model[1].period) <= model[1].limit

\* The same for transmissions that do not overlap on a frequency.
C35_DwellLimitNoOverlap ==
    (IsDwell /\ NoOverlap(tracked)) =>
        \A f \in Channels, w \in WindowStarts(tracked, model[1].period) :
            WindowAirtime(tracked, f, w, model[1].period) <= model[1].limit

\* The same where every time is an f32 (origin 0), without overlap.
C35_DwellLimitExact ==
    (IsDwell /\ NoOverlap(tracked) /\ t0 = 0) =>
        \A f \in Channels, w \in WindowStarts(tracked, model[1].period) :
            WindowAirtime(tracked, f, w, model[1].period) <= model[1].limit

\* The same at origin 0, overlap permitted.
C35_DwellLimitOrigin ==
    (IsDwell /\ t0 = 0) =>
        \A f \in Channels, w \in WindowStarts(tracked, model[1].period) :
            WindowAirtime(tracked, f, w, model[1].period) <= model[1].limit
====
